---- MODULE Spec2Model ----
(***************************************************************************)
(* The chat session state of src/components/Chatbot.tsx (the version with  *)
(* the remote message store, lines 365-934): the message list, the input,  *)
(* the thinking indicator, the feedback dialog, and the asynchronous       *)
(* continuations of the component (the conversation load, the POST of a    *)
(* sent message, the reply timer, the POST of the reply, the PUT of a      *)
(* feedback submit).  One action is one event the browser's event loop     *)
(* dispatches: a user event, a timer firing, or a network completion.      *)
(***************************************************************************)
EXTENDS Integers, Sequences, FiniteSets, TLC

VARIABLES
  messages,         \* useState<ChatMessage[]>              (line 494)
  inputText,        \* useState("")                         (line 497)
  isThinking,       \* useState(false)                      (line 498)
  showModal,        \* useState(false)                      (line 503)
  feedbackComment,  \* useState("")                         (line 504)
  feedbackRating,   \* useState<number | null>(5)           (line 505)
  selectedLocalId,  \* useState<number | null>(null)        (line 506)
  fetchState,       \* the GET of fetchMessages: "pending", "done", "failed"
  store,            \* what the remote store answers to that GET
  sends,            \* per accepted send, the position of its async continuation
  putsInFlight,     \* handleSubmitFeedback calls suspended at their await
  nextUuid,         \* the next value uuidv4() returns
  now,              \* the last reading of the clock (new Date())
  lastOp,           \* the event dispatched last
  calls,            \* the network requests that event issued
  clicked,          \* messageId of the message whose thumb was clicked last
  work              \* what is left of the bound on the run's size

vars == <<messages, inputText, isThinking, showModal, feedbackComment,
          feedbackRating, selectedLocalId, fetchState, sends, putsInFlight,
          nextUuid, now, lastOp, calls, clicked, store, work>>

(* Everything the component itself holds or has scheduled. *)
progVars == <<messages, inputText, isThinking, showModal, feedbackComment,
              feedbackRating, selectedLocalId, fetchState, sends, putsInFlight>>

-----------------------------------------------------------------------------
(* Bounds *)

\* The size of a run: the records of the remote store, the accepted sends
\* and the thumb clicks, together.
MaxWork == 3
\* The size of a run under FairSpec.
MaxFairWork == 2
\* Feedback submits suspended at their PUT at one time.
MaxPuts == 1

-----------------------------------------------------------------------------
(* Values *)

\* null of selectedLocalId and of rating; local ids and ratings are >= 1
Null == 0

ConversationId == "conversation_1"

\* A text is a sequence of characters; a word stands for its characters.
GreetingText == <<"Hello! What can I do to help you?">>
BotReplyText == <<"Thank you for your message. I'm processing your request.">>

Whitespace == {" ", "\n", "\t"}

\* The texts a user types into the input field.
InputTexts == {<<>>, <<" ", "\n">>, <<" ", "hi">>}

\* The comments and ratings a user enters in the dialog.
Comments == {"", "x"}
Ratings == {3}

\* An absent field of a remote record (undefined in the parsed JSON).
Absent == "undefined"

\* The records of conversation_1 the remote store may hold, written by
\* earlier sessions and other clients; its answer lists any of them in any
\* order.  The session's clock reads 10 at mount: two records are older,
\* one was written by a client whose clock is ahead.
RemoteItems ==
  { [conversationId |-> ConversationId, messageId |-> 101, timestamp |-> 5,
     text |-> <<"hi">>, isUser |-> TRUE,
     feedback |-> Absent, comment |-> Absent, rating |-> 0],
    [conversationId |-> ConversationId, messageId |-> 102, timestamp |-> 3,
     text |-> BotReplyText, isUser |-> FALSE,
     feedback |-> "down", comment |-> "bad", rating |-> 3],
    [conversationId |-> ConversationId, messageId |-> 103, timestamp |-> 50,
     text |-> BotReplyText, isUser |-> FALSE,
     feedback |-> "", comment |-> Absent, rating |-> 0] }

RECURSIVE SeqsOver(_, _)
SeqsOver(S, n) ==
  IF n = 0 THEN {<<>>}
  ELSE LET shorter == SeqsOver(S, n - 1)
       IN shorter \cup
          { Append(s, x) : s \in { t \in shorter : Len(t) = n - 1 },
                           x \in S }

NoRepeat(s) == \A i, j \in 1..Len(s) : i # j => s[i] # s[j]

\* What response.json() of the GET may be.
Responses(n) == { s \in SeqsOver(RemoteItems, n) : NoRepeat(s) }

-----------------------------------------------------------------------------
(* Pure functions *)

\* String.prototype.trim
RECURSIVE TrimStart(_)
TrimStart(s) ==
  IF s = <<>> THEN <<>>
  ELSE IF Head(s) \in Whitespace THEN TrimStart(Tail(s)) ELSE s

RECURSIVE TrimEnd(_)
TrimEnd(s) ==
  IF s = <<>> THEN <<>>
  ELSE IF s[Len(s)] \in Whitespace THEN TrimEnd(SubSeq(s, 1, Len(s) - 1))
       ELSE s

Trim(s) == TrimEnd(TrimStart(s))

\* (mutant) a test of the raw input, without trim()
IsEmpty(s) == s = <<>>

\* !inputText.trim()
IsBlank(s) == Trim(s) = <<>>

createDefaultBotMessage(uuid, t) ==
  [localId |-> 1, conversationId |-> ConversationId, messageId |-> uuid,
   timestamp |-> t, text |-> GreetingText, isUser |-> FALSE,
   feedback |-> "", comment |-> "", rating |-> Null]

\* x || ""
OrEmpty(x) == IF x \in {Absent, ""} THEN "" ELSE x

\* item.rating ? Number(item.rating) : null
RatingOf(r) == IF r = 0 THEN Null ELSE r

\* the callback of data.map: item at (0-based) index
FromRemote(item, index) ==
  [localId |-> index + 2, conversationId |-> item.conversationId,
   messageId |-> item.messageId, timestamp |-> item.timestamp,
   text |-> item.text, isUser |-> item.isUser,
   feedback |-> OrEmpty(item.feedback), comment |-> OrEmpty(item.comment),
   rating |-> RatingOf(item.rating)]

MapRemote(data) == [i \in 1..Len(data) |-> FromRemote(data[i], i - 1)]

\* the comparator of the sort: a before b when the result is <= 0
CompareTimestamp(a, b) == a.timestamp - b.timestamp

\* Array.prototype.sort, which is stable
RECURSIVE InsertSorted(_, _)
InsertSorted(s, x) ==
  IF s = <<>> THEN <<x>>
  ELSE IF CompareTimestamp(s[Len(s)], x) <= 0 THEN Append(s, x)
       ELSE Append(InsertSorted(SubSeq(s, 1, Len(s) - 1), x), s[Len(s)])

\* (mutant) the array left in the order the store returned it
Unsorted(s) == s

RECURSIVE SortByTimestamp(_)
SortByTimestamp(s) ==
  IF s = <<>> THEN <<>>
  ELSE InsertSorted(SortByTimestamp(SubSeq(s, 1, Len(s) - 1)), s[Len(s)])

\* new Date(): the clock has moved on since it was last read
Clock(last) == last + 1

\* Math.max(...messages.map((m) => m.localId))
MaxLocalId(msgs) ==
  CHOOSE n \in { msgs[i].localId : i \in 1..Len(msgs) } :
    \A i \in 1..Len(msgs) : msgs[i].localId <= n

NewLocalId(msgs) == IF Len(msgs) # 0 THEN MaxLocalId(msgs) + 1 ELSE 1

\* botLocalId of the reply to the send that took newLocalId
BotLocalId(newLocalId) == newLocalId + 1

\* (mutant) a user message stamped with a zero timestamp
UserMessageUnstamped(localId, uuid, t, text) ==
  [localId |-> localId, conversationId |-> ConversationId, messageId |-> uuid,
   timestamp |-> 0, text |-> text, isUser |-> TRUE,
   feedback |-> "", comment |-> "", rating |-> Null]

UserMessage(localId, uuid, t, text) ==
  [localId |-> localId, conversationId |-> ConversationId, messageId |-> uuid,
   timestamp |-> t, text |-> text, isUser |-> TRUE,
   feedback |-> "", comment |-> "", rating |-> Null]

BotMessage(localId, uuid, t) ==
  [localId |-> localId, conversationId |-> ConversationId, messageId |-> uuid,
   timestamp |-> t, text |-> BotReplyText, isUser |-> FALSE,
   feedback |-> "", comment |-> "", rating |-> Null]

\* (mutant) filter in place of map: only the clicked message is kept
SetFeedbackDroppingOthers(msgs, localId, newFeedback) ==
  SelectSeq([i \in 1..Len(msgs) |->
               [msgs[i] EXCEPT !.feedback = newFeedback]],
            LAMBDA m : m.localId = localId)

\* prev.map((m) => m.localId === localId ? {...m, feedback: newFeedback} : m)
SetFeedback(msgs, localId, newFeedback) ==
  [i \in 1..Len(msgs) |->
     IF msgs[i].localId = localId
     THEN [msgs[i] EXCEPT !.feedback = newFeedback] ELSE msgs[i]]

\* prev.map((m) => m.localId === selectedLocalId ? {...m, comment, rating} : m)
SetCommentRating(msgs, localId, comment, rating) ==
  [i \in 1..Len(msgs) |->
     IF msgs[i].localId = localId
     THEN [msgs[i] EXCEPT !.comment = comment, !.rating = rating]
     ELSE msgs[i]]

\* messages.find((m) => m.localId === selectedLocalId): its index, 0 if none
FindIndex(msgs, localId) ==
  IF \E i \in 1..Len(msgs) : msgs[i].localId = localId
  THEN CHOOSE i \in 1..Len(msgs) :
         /\ msgs[i].localId = localId
         /\ \A j \in 1..(i - 1) : msgs[j].localId # localId
  ELSE 0

PostRequest(m) == [method |-> "POST", body |-> m]

PutRequest(m, comment, rating) ==
  [method |-> "PUT",
   body |-> [conversationId |-> m.conversationId, messageId |-> m.messageId,
             feedback |-> m.feedback, comment |-> comment, rating |-> rating]]

\* messages.some((msg) => msg.isUser)
SomeUser(msgs) == \E i \in 1..Len(msgs) : msgs[i].isUser

-----------------------------------------------------------------------------
(* The state after the first render: the greeting, and the GET of the     *)
(* mount effect in flight.                                                 *)

InitWith(maxWork) ==
  /\ store \in Responses(maxWork)
  /\ work = maxWork - Len(store)
  /\ messages = <<createDefaultBotMessage(1, 10)>>
  /\ inputText = <<>>
  /\ isThinking = FALSE
  /\ showModal = FALSE
  /\ feedbackComment = ""
  /\ feedbackRating = 5
  /\ selectedLocalId = Null
  /\ fetchState = "pending"
  /\ sends = <<>>
  /\ putsInFlight = 0
  /\ nextUuid = 2
  /\ now = 10
  /\ lastOp = "mount"
  /\ calls = <<>>
  /\ clicked = Null

Init == InitWith(MaxWork)

-----------------------------------------------------------------------------
(* fetchMessages, after its awaits: the GET answered with the array data.  *)

LoadedMessages(data, uuid, t) ==
  <<createDefaultBotMessage(uuid, t)>> \o SortByTimestamp(MapRemote(data))

FetchMessagesOk ==
  /\ fetchState = "pending"
  /\ now' = Clock(now)
  /\ messages' = LoadedMessages(store, nextUuid, now')
  /\ nextUuid' = nextUuid + 1
  /\ fetchState' = "done"
  /\ lastOp' = "loadOk"
  /\ calls' = <<>>
  /\ UNCHANGED <<inputText, isThinking, showModal, feedbackComment,
                 feedbackRating, selectedLocalId, sends, putsInFlight,
                 clicked, store, work>>

(* fetchMessages, the catch: the GET was rejected or its body is no JSON.  *)
FetchMessagesFailed ==
  /\ fetchState = "pending"
  /\ fetchState' = "failed"
  /\ lastOp' = "loadFailed"
  /\ calls' = <<>>
  /\ UNCHANGED <<messages, inputText, isThinking, showModal, feedbackComment,
                 feedbackRating, selectedLocalId, sends, putsInFlight,
                 nextUuid, now, clicked, store, work>>

-----------------------------------------------------------------------------
(* The input field's onChange.  The dialog is modal: while it is open, the *)
(* controls behind it receive no events.                                    *)

SetInputText(text) ==
  /\ ~showModal
  /\ text # inputText
  /\ inputText' = text
  /\ lastOp' = "type"
  /\ calls' = <<>>
  /\ UNCHANGED <<messages, isThinking, showModal, feedbackComment,
                 feedbackRating, selectedLocalId, fetchState, sends,
                 putsInFlight, nextUuid, now, clicked, store, work>>

-----------------------------------------------------------------------------
(* handleSend up to its await (send button, or Enter in the field).        *)

HandleSend ==
  /\ ~showModal
  /\ lastOp' = "handleSend"
  /\ IF IsBlank(inputText)
     THEN /\ calls' = <<>>
          /\ UNCHANGED <<progVars, nextUuid, now, work>>
     ELSE   LET t == Clock(now)
                newLocalId == NewLocalId(messages)
                userMessage == UserMessage(newLocalId, nextUuid, t, inputText)
            IN /\ work > 0
               /\ work' = work - 1
               /\ now' = t
               /\ nextUuid' = nextUuid + 1
               /\ messages' = Append(messages, userMessage)
               /\ calls' = <<PostRequest(userMessage)>>
               /\ sends' = Append(sends, [stage |-> "posting",
                                          newLocalId |-> newLocalId])
               /\ UNCHANGED <<inputText, isThinking, showModal,
                              feedbackComment, feedbackRating,
                              selectedLocalId, fetchState, putsInFlight>>
  /\ UNCHANGED <<clicked, store>>

\* (mutant) a rejected POST takes the message back and schedules no reply
UserPostDoneRollingBack(i, ok) ==
  /\ i \in DOMAIN sends
  /\ sends[i].stage = "posting"
  /\ inputText' = <<>>
  /\ isThinking' = ok
  /\ messages' = IF ok THEN messages
                 ELSE SelectSeq(messages,
                                LAMBDA m : m.localId # sends[i].newLocalId)
  /\ sends' = [sends EXCEPT ![i].stage = IF ok THEN "timer" ELSE "done"]
  /\ lastOp' = IF ok THEN "userPostOk" ELSE "userPostFailed"
  /\ calls' = <<>>
  /\ UNCHANGED <<showModal, feedbackComment, feedbackRating,
                 selectedLocalId, fetchState, putsInFlight, nextUuid, now,
                 clicked, store, work>>

(* handleSend after its await: the POST of the user message was answered   *)
(* (ok) or rejected (the catch logs it); either way the function goes on.  *)
UserPostDone(i, ok) ==
  /\ i \in DOMAIN sends
  /\ sends[i].stage = "posting"
  /\ inputText' = <<>>
  /\ isThinking' = TRUE
  /\ sends' = [sends EXCEPT ![i].stage = "timer"]
  /\ lastOp' = IF ok THEN "userPostOk" ELSE "userPostFailed"
  /\ calls' = <<>>
  /\ UNCHANGED <<messages, showModal, feedbackComment, feedbackRating,
                 selectedLocalId, fetchState, putsInFlight, nextUuid, now,
                 clicked, store, work>>

(* The setTimeout callback of send i, up to its await. *)
ReplyTimer(i) ==
  /\ i \in DOMAIN sends
  /\ sends[i].stage = "timer"
  /\ LET botMessage == BotMessage(BotLocalId(sends[i].newLocalId),
                                  nextUuid, Clock(now))
     IN /\ now' = Clock(now)
        /\ messages' = Append(messages, botMessage)
        /\ calls' = <<PostRequest(botMessage)>>
  /\ nextUuid' = nextUuid + 1
  /\ sends' = [sends EXCEPT ![i].stage = "botPosting"]
  /\ lastOp' = "replyTimer"
  /\ UNCHANGED <<inputText, isThinking, showModal, feedbackComment,
                 feedbackRating, selectedLocalId, fetchState, putsInFlight,
                 clicked, store, work>>

(* The setTimeout callback after its await: the POST of the bot message    *)
(* was answered or rejected.                                                *)
BotPostDone(i, ok) ==
  /\ i \in DOMAIN sends
  /\ sends[i].stage = "botPosting"
  /\ isThinking' = FALSE
  /\ sends' = [sends EXCEPT ![i].stage = "done"]
  /\ lastOp' = IF ok THEN "botPostOk" ELSE "botPostFailed"
  /\ calls' = <<>>
  /\ UNCHANGED <<messages, inputText, showModal, feedbackComment,
                 feedbackRating, selectedLocalId, fetchState, putsInFlight,
                 nextUuid, now, clicked, store, work>>

-----------------------------------------------------------------------------
(* handleClear; its button is disabled while no user message is listed.    *)

ClearedMessages(uuid, t) == <<createDefaultBotMessage(uuid, t)>>

\* (mutant) a clear that also cancels the reply timers
HandleClearCancellingTimers ==
  /\ ~showModal
  /\ SomeUser(messages)
  /\ inputText' = <<>>
  /\ now' = Clock(now)
  /\ messages' = ClearedMessages(nextUuid, now')
  /\ nextUuid' = nextUuid + 1
  /\ sends' = [i \in 1..Len(sends) |->
                 IF sends[i].stage = "timer"
                 THEN [sends[i] EXCEPT !.stage = "done"] ELSE sends[i]]
  /\ lastOp' = "handleClear"
  /\ calls' = <<>>
  /\ UNCHANGED <<isThinking, showModal, feedbackComment, feedbackRating,
                 selectedLocalId, fetchState, putsInFlight, clicked, store,
                 work>>

HandleClear ==
  /\ ~showModal
  /\ SomeUser(messages)
  /\ inputText' = <<>>
  /\ now' = Clock(now)
  /\ messages' = ClearedMessages(nextUuid, now')
  /\ nextUuid' = nextUuid + 1
  /\ lastOp' = "handleClear"
  /\ calls' = <<>>
  /\ UNCHANGED <<isThinking, showModal, feedbackComment, feedbackRating,
                 selectedLocalId, fetchState, sends, putsInFlight, clicked, store, work>>

-----------------------------------------------------------------------------
(* The feedback dialog *)

\* the thumbs are rendered when !message.isUser && idx !== 0 (idx 0-based)
ThumbsShown(msgs, idx) == idx \in 1..Len(msgs) /\ ~msgs[idx].isUser /\ idx # 1

\* setFeedbackRating(newFeedback === "up" ? 10 : 1)
DefaultRating(newFeedback) == IF newFeedback = "up" THEN 10 ELSE 1

(* handleThumbUpClick / handleThumbDownClick on the message at position    *)
(* idx (1-based): handleOpenFeedbackDialog(message.localId, newFeedback).  *)
HandleOpenFeedbackDialog(idx, newFeedback) ==
  /\ ~showModal
  /\ ThumbsShown(messages, idx)
  /\ selectedLocalId' = messages[idx].localId
  /\ showModal' = TRUE
  /\ feedbackRating' = DefaultRating(newFeedback)
  /\ feedbackComment' = ""
  /\ messages' = SetFeedback(messages, messages[idx].localId, newFeedback)
  /\ clicked' = messages[idx].messageId
  /\ work > 0
  /\ work' = work - 1
  /\ lastOp' = "thumb"
  /\ calls' = <<>>
  /\ UNCHANGED <<inputText, isThinking, fetchState, sends, putsInFlight,
                 nextUuid, now, store>>

(* The dialog's comment field and rating control. *)
SetFeedbackComment(c) ==
  /\ showModal
  /\ c # feedbackComment
  /\ feedbackComment' = c
  /\ lastOp' = "editComment"
  /\ calls' = <<>>
  /\ UNCHANGED <<messages, inputText, isThinking, showModal, feedbackRating,
                 selectedLocalId, fetchState, sends, putsInFlight, nextUuid,
                 now, clicked, store, work>>

SetFeedbackRating(r) ==
  /\ showModal
  /\ r # feedbackRating
  /\ feedbackRating' = r
  /\ lastOp' = "editRating"
  /\ calls' = <<>>
  /\ UNCHANGED <<messages, inputText, isThinking, showModal, feedbackComment,
                 selectedLocalId, fetchState, sends, putsInFlight, nextUuid,
                 now, clicked, store, work>>

\* what handleCloseModal sets
CloseModal ==
  /\ showModal' = FALSE
  /\ feedbackComment' = ""
  /\ feedbackRating' = 5
  /\ selectedLocalId' = Null

\* (mutant) a close that also takes the thumb back
HandleCloseModalUndoingThumb ==
  /\ showModal
  /\ CloseModal
  /\ messages' = SetFeedback(messages, selectedLocalId, "")
  /\ lastOp' = "closeModal"
  /\ calls' = <<>>
  /\ UNCHANGED <<inputText, isThinking, fetchState, sends,
                 putsInFlight, nextUuid, now, clicked, store, work>>

(* handleCloseModal as the dialog's onClose (backdrop click, Escape). *)
HandleCloseModal ==
  /\ showModal
  /\ CloseModal
  /\ lastOp' = "closeModal"
  /\ calls' = <<>>
  /\ UNCHANGED <<messages, inputText, isThinking, fetchState, sends,
                 putsInFlight, nextUuid, now, clicked, store, work>>

(* handleSubmitFeedback up to its await (the dialog's Send button).  With  *)
(* no message found there is no await and the function runs to its end.    *)
HandleSubmitFeedback ==
  /\ showModal
  /\ lastOp' = "submit"
  /\ IF selectedLocalId = Null
     THEN /\ CloseModal
          /\ calls' = <<>>
          /\ UNCHANGED <<messages, putsInFlight>>
     ELSE LET found == FindIndex(messages, selectedLocalId)
          IN /\ messages' = SetCommentRating(messages, selectedLocalId,
                                             feedbackComment, feedbackRating)
             /\ IF found # 0
                THEN /\ putsInFlight < MaxPuts
                     /\ calls' = <<PutRequest(messages[found],
                                              feedbackComment,
                                              feedbackRating)>>
                     /\ putsInFlight' = putsInFlight + 1
                     /\ UNCHANGED <<showModal, feedbackComment,
                                    feedbackRating, selectedLocalId>>
                ELSE /\ CloseModal
                     /\ calls' = <<>>
                     /\ UNCHANGED putsInFlight
  /\ UNCHANGED <<inputText, isThinking, fetchState, sends, nextUuid, now,
                 clicked, store, work>>

(* handleSubmitFeedback after its await: the PUT was answered or rejected. *)
PutDone(ok) ==
  /\ putsInFlight > 0
  /\ putsInFlight' = putsInFlight - 1
  /\ CloseModal
  /\ lastOp' = IF ok THEN "putOk" ELSE "putFailed"
  /\ calls' = <<>>
  /\ UNCHANGED <<messages, inputText, isThinking, fetchState, sends,
                 nextUuid, now, clicked, store, work>>

-----------------------------------------------------------------------------

Next ==
  \/ FetchMessagesOk
  \/ FetchMessagesFailed
  \/ \E text \in InputTexts : SetInputText(text)
  \/ HandleSend
  \/ \E i \in 1..Len(sends), ok \in BOOLEAN : UserPostDone(i, ok)
  \/ \E i \in 1..Len(sends) : ReplyTimer(i)
  \/ \E i \in 1..Len(sends), ok \in BOOLEAN : BotPostDone(i, ok)
  \/ HandleClear
  \/ \E idx \in 1..Len(messages), fb \in {"up", "down"} :
       HandleOpenFeedbackDialog(idx, fb)
  \/ \E c \in Comments : SetFeedbackComment(c)
  \/ \E r \in Ratings : SetFeedbackRating(r)
  \/ HandleCloseModal
  \/ HandleSubmitFeedback
  \/ \E ok \in BOOLEAN : PutDone(ok)

Spec == Init /\ [][Next]_vars

(* Every pending network call is answered or rejected and every scheduled  *)
(* timer fires: the browser's event loop runs each continuation.           *)
FairSpec ==
  /\ InitWith(MaxFairWork)
  /\ [][Next]_vars
  /\ \A i \in 1..MaxFairWork :
       /\ WF_vars(\E ok \in BOOLEAN : UserPostDone(i, ok))
       /\ WF_vars(ReplyTimer(i))
       /\ WF_vars(\E ok \in BOOLEAN : BotPostDone(i, ok))

-----------------------------------------------------------------------------
(* Properties *)

WhitespaceOnly(text) == \A i \in 1..Len(text) : text[i] \in Whitespace

Last(s) == s[Len(s)]

IsPrefix(s, t) == Len(s) <= Len(t) /\ SubSeq(t, 1, Len(s)) = s

MessageIds(msgs) == { msgs[i].messageId : i \in 1..Len(msgs) }

RemoteIds == { item.messageId : item \in RemoteItems }

\* the event dispatched last was a handleSend that passed its guard
SendAccepted == lastOp = "handleSend" /\ calls # <<>>

\* C1: a handleSend made while the input is empty or whitespace-only leaves
\* the whole state as it was: no message appended, isThinking not set, no
\* reply timer scheduled, no network call issued.
C1_BlankSendChangesNothing ==
  [][(lastOp' = "handleSend" /\ WhitespaceOnly(inputText))
       => /\ UNCHANGED <<progVars, nextUuid, now>>
          /\ calls' = <<>>]_vars

\* C1 witness: handleSend has run on a whitespace-only, non-empty input.
C1_Witness ==
  lastOp = "handleSend" /\ calls = <<>> /\ inputText = <<" ", "\n">>

\* What one accepted handleSend does to the list, the timestamp aside: the
\* previous list with one entry appended, a user message with the input
\* text and a fresh, non-empty messageId.
AppendsUserMessage ==
  /\ Len(messages') = Len(messages) + 1
  /\ IsPrefix(messages, messages')
  /\ Last(messages').isUser
  /\ Last(messages').text = inputText
  /\ Last(messages').messageId > 0
  /\ Last(messages').messageId \notin MessageIds(messages) \cup RemoteIds

\* C2 (as claimed): one handleSend with non-blank input appends exactly one
\* entry, a user message with the input text and a fresh non-empty
\* messageId, whose timestamp is >= that of the message before it, also
\* when that message was loaded from the remote store.
C2_SendAppendsLaterMessage ==
  [][(lastOp' = "handleSend" /\ ~WhitespaceOnly(inputText))
       => /\ AppendsUserMessage
          /\ Last(messages').timestamp >= Last(messages).timestamp]_vars

\* C2 (amended): the same, with the timestamp >= that of the message before
\* it when that message was created in this session (not loaded).
C2_SendAppendsLaterThanLocal ==
  [][(lastOp' = "handleSend" /\ ~WhitespaceOnly(inputText))
       => /\ AppendsUserMessage
          /\ Last(messages).messageId \notin RemoteIds
               => Last(messages').timestamp >= Last(messages).timestamp]_vars

\* C2 witness: a send was accepted after a load that brought remote
\* records, and the message before the new one was created locally.
C2_Witness ==
  /\ SendAccepted
  /\ Len(messages) >= 3
  /\ messages[Len(messages) - 1].messageId \notin RemoteIds
  /\ MessageIds(messages) \cap RemoteIds # {}

\* C3 (as claimed): handleClear yields a list of exactly one message, the
\* greeting, and a conversationId different from the one in use before.
C3_ResetNewConversation ==
  [][lastOp' = "handleClear"
       => /\ Len(messages') = 1
          /\ messages'[1].text = GreetingText
          /\ ~messages'[1].isUser
          /\ messages'[1].conversationId # messages[1].conversationId]_vars

\* C4 (as claimed): submitting the dialog with comment c and rating r after
\* a thumb click on message m leaves m in the list with comment c and rating
\* r, and issues exactly one PUT, whose body carries m's messageId and
\* feedback together with c and r.
C4_SubmitStoresAndPutsClicked ==
  [][lastOp' = "submit"
       => /\ \E i \in 1..Len(messages') :
               /\ messages'[i].messageId = clicked
               /\ messages'[i].comment = feedbackComment
               /\ messages'[i].rating = feedbackRating
               /\ Len(calls') = 1
               /\ calls'[1].method = "PUT"
               /\ calls'[1].body.messageId = clicked
               /\ calls'[1].body.feedback = messages'[i].feedback
               /\ calls'[1].body.comment = feedbackComment
               /\ calls'[1].body.rating = feedbackRating]_vars

\* C5: handleCloseModal as the dialog's close leaves the message list as it
\* was (the clicked message keeps its feedback, every comment and rating
\* stays), issues no network call, and changes the dialog's four fields
\* only.
C5_CloseKeepsMessages ==
  [][lastOp' = "closeModal"
       => /\ messages' = messages
          /\ calls' = <<>>
          /\ UNCHANGED <<inputText, isThinking, fetchState, sends,
                         putsInFlight>>
          /\ ~showModal' /\ feedbackComment' = ""
          /\ feedbackRating' = 5 /\ selectedLocalId' = Null]_vars

\* C5 witness: the dialog was closed without a submit, and the clicked
\* message carries the thumb and neither comment nor rating.
C5_Witness ==
  /\ lastOp = "closeModal"
  /\ putsInFlight = 0
  /\ \E i \in 1..Len(messages) :
       /\ messages[i].messageId = clicked
       /\ messages[i].feedback = "down"
       /\ messages[i].comment = "" /\ messages[i].rating = Null

\* C6: when the load succeeds, the list is the greeting followed by every
\* record of the store's answer exactly once, in non-decreasing timestamp
\* order.
C6_LoadSortsRemote ==
  lastOp = "loadOk"
    => /\ Len(messages) = Len(store) + 1
       /\ messages[1].text = GreetingText
       /\ ~messages[1].isUser
       /\ messages[1].messageId \notin RemoteIds
       /\ \A k \in 1..Len(store) :
            Cardinality({ i \in 2..Len(messages) :
                            /\ messages[i].messageId = store[k].messageId
                            /\ messages[i].timestamp = store[k].timestamp
                            /\ messages[i].text = store[k].text
                            /\ messages[i].isUser = store[k].isUser }) = 1
       /\ \A i \in 2..(Len(messages) - 1) :
            messages[i].timestamp <= messages[i + 1].timestamp

\* C6 witness: three records answered in the order T2, T1, T3 are loaded.
C6_Witness ==
  /\ lastOp = "loadOk"
  /\ Len(store) = 3
  /\ store[2].timestamp < store[1].timestamp
  /\ store[1].timestamp < store[3].timestamp

Replied(i) == Len(sends) >= i /\ sends[i].stage \in {"botPosting", "done"}

\* the step appends exactly one message to the list as it is now, a bot's
AppendsBotMessage ==
  /\ Len(messages') = Len(messages) + 1
  /\ IsPrefix(messages, messages')
  /\ ~Last(messages').isUser
  /\ Last(messages').text = BotReplyText

\* C7: every accepted send eventually has its reply appended, whatever
\* happens in between (a reset, further sends); the reply timer's firing
\* appends exactly one bot message to the list current at that time, a send
\* is replied to once, and a scheduled reply is never cancelled.
C7_EverySendReplied ==
  /\ \A i \in 1..MaxFairWork :
       (Len(sends) >= i /\ sends[i].stage = "posting") ~> Replied(i)
  /\ [][/\ lastOp' = "replyTimer" => AppendsBotMessage
        /\ \A i \in 1..Len(sends) :
             /\ Replied(i) => sends'[i].stage \in {"botPosting", "done"}
             /\ sends[i].stage = "timer"
                  => sends'[i].stage \in {"timer", "botPosting"}
             /\ (sends[i].stage = "timer" /\ sends'[i].stage # "timer")
                  => lastOp' = "replyTimer"]_vars

\* C7 witness: a reply was appended to a list that a reset had emptied of
\* the user message it answers.
C7_Witness ==
  /\ lastOp = "replyTimer"
  /\ Len(messages) = 2
  /\ ~SomeUser(messages)
  /\ fetchState = "pending"

\* C8: an accepted send and a firing reply timer each issue exactly one
\* POST, of the message they append; a submit that finds its message issues
\* exactly one PUT, a submit that finds none changes no message and issues
\* no call.  A rejected call rolls nothing back: after a rejected POST the
\* list is as it was and the reply stays scheduled (the input cleared, the
\* indicator set), after a rejected bot POST the list is as it was, after a
\* rejected PUT the list is as it was and the dialog closed.
C8_OneCallNoRollback ==
  [][/\ (lastOp' = "handleSend" /\ ~WhitespaceOnly(inputText))
          => calls' = <<PostRequest(Last(messages'))>>
     /\ lastOp' = "replyTimer"
          => calls' = <<PostRequest(Last(messages'))>>
     /\ lastOp' = "submit"
          => IF \E i \in 1..Len(messages) :
                  messages[i].localId = selectedLocalId
             THEN /\ Len(calls') = 1
                  /\ calls'[1].method = "PUT"
                  /\ putsInFlight' = putsInFlight + 1
             ELSE calls' = <<>> /\ messages' = messages
     /\ lastOp' \in {"userPostFailed", "userPostOk"}
          => /\ messages' = messages
             /\ inputText' = <<>>
             /\ isThinking'
             /\ \E i \in 1..Len(sends) :
                  sends[i].stage = "posting" /\ sends'[i].stage = "timer"
     /\ lastOp' \in {"botPostFailed", "botPostOk"}
          => messages' = messages /\ ~isThinking'
     /\ lastOp' \in {"putFailed", "putOk"}
          => messages' = messages /\ ~showModal'
                /\ putsInFlight' = putsInFlight - 1]_vars

\* C8 witness: the PUT of a submit was rejected; the comment and the rating
\* are on the clicked message and the dialog is closed.
C8_Witness ==
  /\ lastOp = "putFailed"
  /\ ~showModal
  /\ \E i \in 1..Len(messages) :
       /\ messages[i].messageId = clicked
       /\ messages[i].comment = "x"
       /\ messages[i].rating = 3

\* C9 (as claimed): no two messages of the list have the same localId.
C9_UniqueLocalIds ==
  \A i, j \in 1..Len(messages) :
    i # j => messages[i].localId # messages[j].localId

StripFeedback(m) == [m EXCEPT !.feedback = "", !.comment = "", !.rating = Null]

\* the old list is a prefix of the new one, feedback, comment and rating
\* aside
KeepsListAsPrefix ==
  /\ Len(messages) <= Len(messages')
  /\ \A i \in 1..Len(messages) :
       StripFeedback(messages'[i]) = StripFeedback(messages[i])

\* C10 (as claimed): every step other than handleClear leaves the previous
\* list as a prefix of the new list up to feedback, comment and rating.
C10_AppendOnlyButReset ==
  [][lastOp' # "handleClear" => KeepsListAsPrefix]_vars

\* C10 (amended): every step other than handleClear and the completion of
\* the conversation load leaves the previous list as a prefix of the new
\* list up to feedback, comment and rating.
C10_AppendOnlyButResetAndLoad ==
  [][lastOp' \notin {"handleClear", "loadOk"} => KeepsListAsPrefix]_vars

\* C10 witness: a thumb click has changed a feedback field of a list of
\* four messages, which otherwise stayed as it was.
C10_Witness ==
  /\ lastOp = "thumb"
  /\ Len(messages) = 4
  /\ \E i \in 1..Len(messages) : messages[i].feedback = "up"

\* the thumb clicked last: the message at a position where thumbs are shown
ClickedEligible ==
  \E idx \in 1..Len(messages) :
    /\ messages[idx].messageId = clicked
    /\ ~messages[idx].isUser
    /\ idx # 1

\* C11 (as claimed): thumbs are offered only on bot messages at a position
\* other than the first, and in every reachable state the greeting and
\* every user message have feedback none (the store returning no feedback
\* on a user's record), a click changing the clicked bot message only.
C11_FeedbackOnlyOnEligible ==
  /\ lastOp = "thumb" => ClickedEligible
  /\ \A i \in 1..Len(messages) :
       (i = 1 \/ messages[i].isUser) => messages[i].feedback = ""

\* the replies scheduled by setTimeout and not yet appended
PendingReplies == { i \in 1..Len(sends) : sends[i].stage = "timer" }

\* C12 (as claimed): in every reachable state in which a reply timer is
\* scheduled and has not yet appended its bot message, isThinking is true,
\* also when sends overlap and the reply of one of them has arrived.
C12_ThinkingWhilePending ==
  PendingReplies # {} => isThinking

\* the send whose user message is the last of the list has its reply
\* scheduled
ReplyScheduledForLast ==
  \E i \in 1..Len(sends) :
    /\ sends[i].newLocalId = Last(messages).localId
    /\ sends[i].stage = "timer"

\* C13 (as claimed): with the POST of an accepted send just issued and not
\* yet answered, the input is cleared, isThinking is set and the reply is
\* scheduled; with the PUT of a submit just issued and not yet answered,
\* the dialog is closed.
C13_LocalEffectsBeforeResponse ==
  /\ SendAccepted
       => inputText = <<>> /\ isThinking /\ ReplyScheduledForLast
  /\ (lastOp = "submit" /\ calls # <<>>) => ~showModal

\* the positions of the list that selectedLocalId identifies
Selected == { i \in 1..Len(messages) : messages[i].localId = selectedLocalId }

\* C14 (as claimed): whenever the dialog is open, selectedLocalId identifies
\* exactly one message of the list, the bot message after the first whose
\* thumb was clicked, also after the load completed or a reply timer fired
\* with the dialog open.
C14_SelectedIsClicked ==
  showModal
    => /\ Cardinality(Selected) = 1
       /\ \A i \in Selected :
            /\ messages[i].messageId = clicked
            /\ ~messages[i].isUser
            /\ i # 1

====
